---------------------------- MODULE Spec2Model ----------------------------
(***************************************************************************)
(* Model of the text-overlay renderer of QuoteGenerator                    *)
(* (src/app/image_generator.py, overlay_text_on_image).                    *)
(*                                                                         *)
(* One render call is a linear pipeline.  Each stage of the function is    *)
(* one action; pc names the stage that runs next.  Strings are sequences   *)
(* of one-character strings, so that str.split, str.join and string        *)
(* concatenation are computed character by character.                      *)
(*                                                                         *)
(* Pillow is not part of the repository.  What the code asks of it (font   *)
(* loading, text measurement) is modelled as an environment chosen in the  *)
(* initial state: which font candidates load, which measuring calls the    *)
(* drawing object offers, and a table of glyph metrics.                    *)
(***************************************************************************)
EXTENDS Integers, Sequences, FiniteSets, TLC

VARIABLES
    pc,                 \* stage of overlay_text_on_image that runs next
    err,                \* exception that ended the call ("" when none)
    image_ok,           \* input: image_bytes decode to an image
    width, height,      \* input: size of the decoded image (base.size)
    text,               \* input: text argument
    text_scale,         \* input: text_scale argument (a fraction, or NaN)
    draw,               \* environment: measuring calls Pillow offers
    font_files,         \* environment: status of each entry of font_paths
    font_names,         \* environment: entries of the name list that load
    default_font,       \* environment: what ImageFont.load_default() returns
    txt,                \* size of the transparent text layer
    font_size,          \* local font_size (-1 while the name is unbound)
    font,               \* local font
    lines,              \* local lines
    line_heights,       \* local line_heights
    total_text_height,  \* local total_text_height
    sample_h,           \* local sample_h
    upscale_factor,     \* local upscale_factor
    upscale_layer,      \* size of upscale_layer, <<>> for None
    text_block_height,  \* height of the temporary text_block (upscale path)
    y,                  \* top of the text block on the layer
    rect,               \* backdrop rectangle drawn by the taken path
    drawn,              \* lines drawn by the taken path: <<x, y, w, h>> each
    paste,              \* <<x_paste, y_paste>> of the upscaled block, <<>> if none
    out,                \* returned image: <<width, height, mode>>, <<>> if none
    max_text_width,     \* local max_text_width (0 before it is assigned)
    handler,            \* outcome of the overlay step of quote_image
    users,              \* users table: username -> row (or no row)
    now,                \* clock of the server
    access_token,       \* the client's access_token of the last token response
    refresh_token,      \* the client's refresh_token of the last token response
    rows,               \* quotes table: rows[id] holds the two filenames
    image_files,        \* names of the image files on disk
    requests,           \* per connection, the request in progress
    console,            \* the users database: "open" while a console holds a write transaction
    response            \* the response the last step sent (NoResponse if none)

inputs == <<image_ok, width, height, text, text_scale, draw, font_files,
            font_names, default_font>>
locals == <<txt, font_size, font, lines, line_heights, total_text_height,
            sample_h, upscale_factor, upscale_layer, text_block_height, y,
            rect, drawn, paste, out, max_text_width>>
render == <<pc, err, inputs, locals, handler>>
api == <<users, now, access_token, refresh_token, rows, image_files, requests, console,
        response>>
vars == <<render, api>>

----------------------------------------------------------------------------
(* Bounds of the model *)

\* longest text of a render call
MaxLen == 3
\* longest text given to the wrapping step alone
MaxWrapLen == 5

(* Program constants *)

\* len(font_paths)
NumPaths == 5
\* number of names in the font name list
NumNames == 6
\* MIN_PX
MIN_PX == 14
\* floor of max(18, ...)
MinFontSize == 18
\* inter-line gap of total_text_height
LineGap == 8

None == <<>>

\* a text_scale: the double nearest to the fraction p/q (what the literal
\* or the division p / q gives in Python), the scale s/1000, and a
\* text_scale that is not a finite number
Ratio(p, q) == [finite |-> TRUE, num |-> p, den |-> q]
Scale(s) == Ratio(s, 1000)
NaN == [finite |-> FALSE, num |-> 0, den |-> 1]

----------------------------------------------------------------------------
(* Arithmetic *)

Max(a, b) == IF a >= b THEN a ELSE b
Min(a, b) == IF a <= b THEN a ELSE b

\* int(n / d): truncation toward zero, d > 0
Trunc(n, d) == IF n >= 0 THEN n \div d ELSE -((-n) \div d)

\* math.ceil(n / d) for n >= 0, d > 0
Ceil(n, d) == (n + d - 1) \div d

RECURSIVE GCD(_, _)
GCD(a, b) == IF b = 0 THEN a ELSE GCD(b, a % b)

RECURSIVE Pow2(_)
Pow2(k) == IF k = 0 THEN 1 ELSE 2 * Pow2(k - 1)

\* 2^k mod q
RECURSIVE Pow2Mod(_, _)
Pow2Mod(k, q) == IF k = 0 THEN 1 % q ELSE (2 * Pow2Mod(k - 1, q)) % q

\* floor(log2(p / q)) for p, q > 0: the binary exponent of the double p/q
RECURSIVE Log2Floor(_, _)
Log2Floor(p, q) ==
    IF p >= 2 * q THEN Log2Floor(p, 2 * q) + 1
    ELSE IF p < q THEN Log2Floor(2 * p, q) - 1
    ELSE 0

\* the least e with 2^e >= n, n >= 1
RECURSIVE CeilLog2(_, _)
CeilLog2(n, e) == IF Pow2(e) >= n THEN e ELSE CeilLog2(n, e + 1)

\* the double nearest to p/q is M / 2^t with t = 52 - Log2Floor(p, q) and a
\* 53-bit M; this is p * 2^t - q * M, positive when the double lies below p/q
DoubleShortfall(p, q) ==
    LET c == (p * Pow2Mod(52 - Log2Floor(p, q), q)) % q
    IN  IF 2 * c < q THEN c ELSE c - q

\* int(n * (p/q)) for n >= 0 and a fraction p/q > 0 in lowest terms, the
\* product taken in doubles.  The double x nearest to p/q differs from it
\* by shortfall / (q * 2^t), so n * x differs from n * p / q by less than
\* n / 2^t.  When n * p / q is no integer it is at least 1/q away from one;
\* the two roundings move the product by less than n * p / (q * 2^52),
\* which is below 1/q for every n * p below 2^52, so neither n * x nor its
\* rounding to a double gets across, and int() gives the floor of
\* n * p / q.  When n * p / q is an integer N and x lies
\* below p/q, n * x lies below N by n * shortfall / (q * 2^t); it rounds to
\* the double under N, and int() gives N - 1, when that is more than half
\* the spacing of doubles under N, and it rounds up to N otherwise
IntOfDoubleProductReduced(n, p, q) ==
    IF (n * p) % q # 0 \/ n = 0 THEN (n * p) \div q
    ELSE LET N == (n * p) \div q
             r == DoubleShortfall(p, q)
             x == CeilLog2(N, 0) - Log2Floor(p, q) - 2
             below == IF x >= 0 THEN n * r > q * Pow2(x)
                      ELSE n * r * Pow2(-x) > q
         IN  IF r > 0 /\ below THEN N - 1 ELSE N

\* int(n * x) for n >= 0 and the double x nearest to p/q, q > 0
IntOfDoubleProduct(n, p, q) ==
    IF p = 0 THEN 0
    ELSE IF p < 0
    THEN -IntOfDoubleProductReduced(n, (-p) \div GCD(-p, q), q \div GCD(-p, q))
    ELSE IntOfDoubleProductReduced(n, p \div GCD(p, q), q \div GCD(p, q))

\* floor(n * x) for n >= 0 and the double x nearest to p/q, p, q > 0, the
\* product taken exactly: it is under the integer n * p / q when x lies
\* below p/q
FloorOfExactProduct(n, p, q) ==
    IF n > 0 /\ (n * p) % q = 0
          /\ DoubleShortfall(p \div GCD(p, q), q \div GCD(p, q)) > 0
    THEN (n * p) \div q - 1
    ELSE (n * p) \div q

RECURSIVE Sum(_)
Sum(s) == IF s = <<>> THEN 0 ELSE Head(s) + Sum(Tail(s))

----------------------------------------------------------------------------
(* Strings *)

Chars == {"a", "T", " ", "\n"}
Whitespace == {" ", "\n"}

StringsUpTo(n) == UNION {[1..k -> Chars] : k \in 0..n}

\* str.split(sep) for a one-character sep: cuts at every sep, keeps empty
\* pieces, always returns at least one piece
RECURSIVE SplitOn(_, _, _)
SplitOn(s, sep, cur) ==
    IF s = <<>> THEN <<cur>>
    ELSE IF Head(s) = sep THEN <<cur>> \o SplitOn(Tail(s), sep, <<>>)
    ELSE SplitOn(Tail(s), sep, Append(cur, Head(s)))

\* str.split() without argument: cuts at runs of whitespace, no empty pieces
RECURSIVE SplitWs(_, _)
SplitWs(s, cur) ==
    IF s = <<>> THEN (IF cur = <<>> THEN <<>> ELSE <<cur>>)
    ELSE IF Head(s) \in Whitespace
         THEN (IF cur = <<>> THEN <<>> ELSE <<cur>>) \o SplitWs(Tail(s), <<>>)
         ELSE SplitWs(Tail(s), Append(cur, Head(s)))

\* sep.join(parts)
RECURSIVE Join(_, _)
Join(parts, sep) ==
    IF parts = <<>> THEN <<>>
    ELSE IF Len(parts) = 1 THEN parts[1]
    ELSE parts[1] \o sep \o Join(Tail(parts), sep)

----------------------------------------------------------------------------
(* Fonts and text measurement (Pillow) *)

\* ImageFont.truetype(candidate, size): a scalable font at the pixel size
TrueType(src, idx, size) ==
    [kind |-> "truetype", src |-> src, idx |-> idx, size |-> size]

\* ImageFont.load_default(): the fixed 6x11 bitmap font, or, in a Pillow
\* built with FreeType since 10.1, a scalable font at size 10
LoadDefault(which) ==
    IF which = "bitmap"
    THEN [kind |-> "bitmap", src |-> "default", idx |-> 0, size |-> 11]
    ELSE [kind |-> "truetype", src |-> "default", idx |-> 0, size |-> 10]

\* horizontal advance of one glyph
Advance(c, fnt) ==
    IF fnt.kind = "bitmap" THEN 6
    ELSE IF c = "T" THEN (fnt.size * 7) \div 10
    ELSE IF c = "a" THEN (fnt.size * 6) \div 10
    ELSE (fnt.size * 3) \div 10

\* distance from the top of the line to the top of the glyph's ink
InkTop(c, fnt) ==
    IF c = "T" THEN (fnt.size * 2) \div 10 ELSE (fnt.size * 4) \div 10

\* distance from the top of the line to the baseline, where the ink ends
InkBottom(fnt) == (fnt.size * 9) \div 10

RECURSIVE TextLength(_, _)
TextLength(s, fnt) ==
    IF s = <<>> THEN 0 ELSE Advance(Head(s), fnt) + TextLength(Tail(s), fnt)

RECURSIVE TextTop(_, _)
TextTop(s, fnt) ==
    IF s = <<>> THEN InkBottom(fnt)
    ELSE IF Head(s) \in Whitespace THEN TextTop(Tail(s), fnt)
    ELSE Min(InkTop(Head(s), fnt), TextTop(Tail(s), fnt))

\* draw.textbbox((0, 0), s, font=fnt): <<l, t, r, b>>, the box of the ink;
\* the bitmap font reports its full cell, the empty string an empty box
textbbox(s, fnt) ==
    IF fnt.kind = "bitmap" THEN <<0, 0, 6 * Len(s), 11>>
    ELSE IF s = <<>> THEN <<0, 0, 0, 0>>
    ELSE <<0, TextTop(s, fnt), TextLength(s, fnt), InkBottom(fnt)>>

\* draw.textsize(s, font=fnt) and fnt.getsize(s) of older Pillow: the extent
\* measured from the origin
getsize(s, fnt) ==
    IF fnt.kind = "bitmap" THEN <<6 * Len(s), 11>>
    ELSE IF s = <<>> THEN <<0, 0>>
    ELSE <<TextLength(s, fnt), InkBottom(fnt)>>

\* the measuring calls a Pillow release offers to _text_size
DrawObjects == {"textbbox", "textbbox_freetype_only", "textsize", "getsize", "none"}

\* Pillow 8.0 to 9.1: textbbox raises ValueError for a font that is not a
\* FreeTypeFont
TextSizeRaises(draw_obj, fnt) ==
    draw_obj = "textbbox_freetype_only" /\ fnt.kind = "bitmap"

\* _text_size(draw_obj, s, fnt), when it returns: <<width, height>>
_text_size(draw_obj, s, fnt) ==
    IF draw_obj \in {"textbbox", "textbbox_freetype_only"}
    THEN LET bb == textbbox(s, fnt) IN <<bb[3] - bb[1], bb[4] - bb[2]>>
    ELSE IF draw_obj \in {"textsize", "getsize"}
    THEN getsize(s, fnt)
    ELSE <<Len(s) * 8, 12>>

----------------------------------------------------------------------------
(* Wrapping *)

\* the loop, measuring the candidate without the space it is given
RECURSIVE WrapLoopNoSpace(_, _, _, _, _, _)
WrapLoopNoSpace(draw_obj, fnt, max_width_px, words, acc, current) ==
    IF words = <<>> THEN Append(acc, current)
    ELSE LET cand == current \o <<" ">> \o Head(words)
             w_px == _text_size(draw_obj, current \o Head(words), fnt)[1]
         IN  IF w_px <= max_width_px
             THEN WrapLoopNoSpace(draw_obj, fnt, max_width_px, Tail(words), acc, cand)
             ELSE WrapLoopNoSpace(draw_obj, fnt, max_width_px, Tail(words),
                                  Append(acc, current), Head(words))

\* the loop, measuring the next word instead of the candidate line
RECURSIVE WrapLoopWordOnly(_, _, _, _, _, _)
WrapLoopWordOnly(draw_obj, fnt, max_width_px, words, acc, current) ==
    IF words = <<>> THEN Append(acc, current)
    ELSE LET cand == current \o <<" ">> \o Head(words)
             w_px == _text_size(draw_obj, Head(words), fnt)[1]
         IN  IF w_px <= max_width_px
             THEN WrapLoopWordOnly(draw_obj, fnt, max_width_px, Tail(words), acc, cand)
             ELSE WrapLoopWordOnly(draw_obj, fnt, max_width_px, Tail(words),
                                   Append(acc, current), Head(words))

\* the loop, closing a line already when the candidate fills the width
RECURSIVE WrapLoopStrict(_, _, _, _, _, _)
WrapLoopStrict(draw_obj, fnt, max_width_px, words, acc, current) ==
    IF words = <<>> THEN Append(acc, current)
    ELSE LET cand == current \o <<" ">> \o Head(words)
             w_px == _text_size(draw_obj, cand, fnt)[1]
         IN  IF w_px < max_width_px
             THEN WrapLoopStrict(draw_obj, fnt, max_width_px, Tail(words), acc, cand)
             ELSE WrapLoopStrict(draw_obj, fnt, max_width_px, Tail(words),
                                 Append(acc, current), Head(words))

\* the loop, starting a new line without keeping the one it closes
RECURSIVE WrapLoopForgetsLine(_, _, _, _, _, _)
WrapLoopForgetsLine(draw_obj, fnt, max_width_px, words, acc, current) ==
    IF words = <<>> THEN Append(acc, current)
    ELSE LET cand == current \o <<" ">> \o Head(words)
             w_px == _text_size(draw_obj, cand, fnt)[1]
         IN  IF w_px <= max_width_px
             THEN WrapLoopForgetsLine(draw_obj, fnt, max_width_px, Tail(words), acc, cand)
             ELSE WrapLoopForgetsLine(draw_obj, fnt, max_width_px, Tail(words),
                                      acc, Head(words))

\* the loop over words[1:] of wrap_text_by_pixel
RECURSIVE WrapLoop(_, _, _, _, _, _)
WrapLoop(draw_obj, fnt, max_width_px, words, acc, current) ==
    IF words = <<>> THEN Append(acc, current)
    ELSE LET cand == current \o <<" ">> \o Head(words)
             w_px == _text_size(draw_obj, cand, fnt)[1]
         IN  IF w_px <= max_width_px
             THEN WrapLoop(draw_obj, fnt, max_width_px, Tail(words), acc, cand)
             ELSE WrapLoop(draw_obj, fnt, max_width_px, Tail(words),
                           Append(acc, current), Head(words))

\* wrap_text_by_pixel without the lines.append(current) after the loop
wrap_text_drops_last(draw_obj, s, fnt, max_width_px) ==
    LET words == SplitWs(s, <<>>)
        all == IF words = <<>> THEN << <<>> >>
               ELSE WrapLoop(draw_obj, fnt, max_width_px, Tail(words), <<>>, Head(words))
    IN  IF words = <<>> THEN all ELSE SubSeq(all, 1, Len(all) - 1)

\* wrap_text_by_pixel giving no line for a paragraph without words
wrap_text_skips_blank(draw_obj, s, fnt, max_width_px) ==
    LET words == SplitWs(s, <<>>)
    IN  IF words = <<>> THEN <<>>
        ELSE WrapLoop(draw_obj, fnt, max_width_px, Tail(words), <<>>, Head(words))

\* wrap_text_by_pixel(draw_obj, text, fnt, max_width_px)
wrap_text_by_pixel(draw_obj, s, fnt, max_width_px) ==
    LET words == SplitWs(s, <<>>)
    IN  IF words = <<>> THEN << <<>> >>
        ELSE WrapLoop(draw_obj, fnt, max_width_px, Tail(words), <<>>, Head(words))

\* wrap_text_by_pixel measures only when the paragraph has a second word
WrapMeasures(s) == Len(SplitWs(s, <<>>)) >= 2

\* lines.extend(...) over text.split("\n")
RECURSIVE WrapParagraphs(_, _, _, _)
WrapParagraphs(draw_obj, paragraphs, fnt, max_width_px) ==
    IF paragraphs = <<>> THEN <<>>
    ELSE wrap_text_by_pixel(draw_obj, Head(paragraphs), fnt, max_width_px)
         \o WrapParagraphs(draw_obj, Tail(paragraphs), fnt, max_width_px)

\* the lines of the whole text
WrapAll(draw_obj, s, fnt, max_width_px) ==
    WrapParagraphs(draw_obj, SplitOn(s, "\n", <<>>), fnt, max_width_px)

\* the line width limit taken as four fifths of the image width
MaxTextWidthFourFifths(w) == (80 * w) \div 100

\* int(width * 0.82) in double arithmetic
MaxTextWidth(w) == IntOfDoubleProduct(w, 82, 100)

\* the widths where the product rounds to the double just below the exact
\* integer: 150, 300, 600, 1200, 2350, 2400, 2450, 4700, ...
RoundsBelow == {w \in Nat : MaxTextWidth(w) < (82 * w) \div 100}

----------------------------------------------------------------------------
(* Font resolution *)

NoFont == [kind |-> "none", src |-> "none", idx |-> 0, size |-> 0]

\* the font size without its floor
FontSizeNoFloor(w, scale) == IntOfDoubleProduct(w, scale.num, scale.den)

\* max(18, int(width * text_scale)), the product taken in doubles
FontSize(w, scale) == Max(MinFontSize, IntOfDoubleProduct(w, scale.num, scale.den))

\* for path in font_paths: the first path that exists and loads
RECURSIVE TryPaths(_, _, _)
TryPaths(files, i, size) ==
    IF i > NumPaths THEN NoFont
    ELSE IF files[i] = "ok" THEN TrueType("path", i, size)
    ELSE TryPaths(files, i + 1, size)

\* for name in [...]: the first name that loads
RECURSIVE TryNames(_, _, _)
TryNames(names, i, size) ==
    IF i > NumNames THEN NoFont
    ELSE IF i \in names THEN TrueType("name", i, size)
    ELSE TryNames(names, i + 1, size)

\* the candidate chain with the names tried before the paths
SelectFontNamesFirst(files, names, dflt, size) ==
    LET byName == TryNames(names, 1, size)
        byPath == IF byName = NoFont THEN TryPaths(files, 1, size) ELSE byName
    IN  IF byPath = NoFont THEN LoadDefault(dflt) ELSE byPath

\* the candidate chain: paths, then names, then the default font
SelectFont(files, names, dflt, size) ==
    LET byPath == TryPaths(files, 1, size)
        byName == IF byPath = NoFont THEN TryNames(names, 1, size) ELSE byPath
    IN  IF byName = NoFont THEN LoadDefault(dflt) ELSE byName

----------------------------------------------------------------------------
(* Layout *)

\* a block margin of a fifth of the font size
BlockMarginFifth(fs) == (2 * fs) \div 10

\* padding_x = int(width * 0.06)
PaddingX(w) == (6 * w) \div 100
\* padding_y = int(font_size * 0.6)
PaddingY(fs) == (6 * fs) \div 10
\* int(font_size * 0.2), the advance added to a line's height while drawing
LineAdvance(fs) == (2 * fs) \div 10
\* int(font_size * 1.2), the margin of the temporary text block
BlockMargin(fs) == (12 * fs) \div 10

\* for line in lines: draw the line centred at (x, y), then advance y
RECURSIVE DrawLines(_, _, _, _, _, _)
DrawLines(draw_obj, ls, fnt, w0, y0, fs) ==
    IF ls = <<>> THEN <<>>
    ELSE LET sz == _text_size(draw_obj, Head(ls), fnt)
             x == (w0 - sz[1]) \div 2
         IN  << <<x, y0, sz[1], sz[2]>> >>
             \o DrawLines(draw_obj, Tail(ls), fnt, w0, y0 + sz[2] + LineAdvance(fs), fs)

\* the block top rounded toward zero
CentreTopTowardZero(h, block) == Trunc(h - block, 2)

\* y = (height - total_text_height) // 2
CentreTop(h, block) == (h - block) \div 2

\* the factor with the ratio rounded down
UpscaleFactorFloor(h) == Max(1, MIN_PX \div Max(1, h))

\* upscale_factor = max(1, math.ceil(MIN_PX / max(1, sample_h)))
UpscaleFactor(h) == Max(1, Ceil(MIN_PX, Max(1, h)))

\* Image.alpha_composite(base, layer): an RGBA image of the size of base
alpha_composite(base, layer) == <<base[1], base[2], "RGBA">>

\* convert that keeps the mode of the image
convert_keeps_mode(im, mode) == im

\* im.convert(mode)
convert(im, mode) == <<im[1], im[2], mode>>

----------------------------------------------------------------------------
(* The render call *)

Widths == {40, 150, 1000}
Heights == {30, 1000}
Scales == {Scale(-30), Scale(0), Scale(30), Scale(500), Scale(820), Ratio(1, 3), NaN}

AllFiles == [1..NumPaths -> {"missing", "broken", "ok"}]
AllNames == SUBSET (1..NumNames)
Defaults == {"bitmap", "freetype"}

\* font environments of the render-call specification: the first path loads;
\* no path exists and the second name loads; nothing loads (either default)
NoFiles == [i \in 1..NumPaths |-> "missing"]
FontEnvs ==
    { [files |-> [i \in 1..NumPaths |-> "ok"], names |-> 1..NumNames, dflt |-> "bitmap"],
      [files |-> NoFiles, names |-> {2}, dflt |-> "bitmap"],
      [files |-> NoFiles, names |-> {}, dflt |-> "bitmap"],
      [files |-> NoFiles, names |-> {}, dflt |-> "freetype"] }

----------------------------------------------------------------------------
(* The API: users, tokens, the quotes table and the image files *)

Usernames == {"demo"}

\* get_user returns None: the users table has no row of that name
NoUser == [exists |-> FALSE, disabled |-> FALSE, pw |-> ""]

\* a row as create_user inserts it: disabled takes its default 0
NewUser(password) == [exists |-> TRUE, disabled |-> FALSE, pw |-> password]

\* a string that is no token of this server
NoToken == [sub |-> "", exp |-> -1, issued_as |-> ""]

\* the placeholder "temp" that insert_quote gets for both filenames
TempName == [kind |-> "temp", id |-> 0, ts |-> 0]

\* the connections that can have a request of main.py in progress
Clients == {"c1", "c2"}

\* the endpoints that depend on get_current_active_user
ProtectedEndpoints == {"/quote-image", "/quotes", "/quotes/{quote_id}", "/users/me"}

\* no request in progress on a connection; of a request in progress: the
\* endpoint, the path parameter id, the bearer token (the token of the body
\* for /refresh), the username of the form of /token, the locals quote_id
\* and access_token, created_at of the row and the timestamp of the names
NoRequest ==
    [pc |-> "idle", endpoint |-> "", id |-> 0, token |-> NoToken, username |-> "",
     access |-> NoToken, quote_id |-> 0, created_at |-> 0, ts |-> 0]

\* no response
NoResponse ==
    [endpoint |-> "", id |-> 0, token |-> NoToken, status |-> 0, detail |-> "",
     cause |-> "", body |-> <<>>]

\* the server before any request: no user, no quote, no file
ApiIdle ==
    /\ users = [u \in Usernames |-> NoUser]
    /\ now = 0
    /\ access_token = NoToken
    /\ refresh_token = NoToken
    /\ rows = <<>>
    /\ image_files = {}
    /\ requests = [c \in Clients |-> NoRequest]
    /\ console = "closed"
    /\ response = NoResponse

----------------------------------------------------------------------------
(* The render call, continued *)

\* quote_image has not reached the end of its overlay step
NoOutcome == [status |-> 0, detail |-> "", message |-> ""]

\* the locals before the call has assigned them, no handler outcome, and
\* the server of the API at rest
LocalsInit ==
    /\ txt = None
    /\ font_size = -1
    /\ font = NoFont
    /\ lines = <<>>
    /\ line_heights = <<>>
    /\ total_text_height = 0
    /\ sample_h = 0
    /\ upscale_factor = 1
    /\ upscale_layer = None
    /\ text_block_height = 0
    /\ y = 0
    /\ rect = None
    /\ drawn = <<>>
    /\ paste = None
    /\ out = None
    /\ max_text_width = 0
    /\ handler = NoOutcome
    /\ ApiIdle

Init ==
    /\ pc = "start"
    /\ err = ""
    /\ image_ok \in BOOLEAN
    /\ width \in Widths
    /\ height \in Heights
    /\ text \in StringsUpTo(MaxLen)
    /\ text_scale \in Scales
    /\ draw \in DrawObjects
    /\ \E env \in FontEnvs :
          /\ font_files = env.files
          /\ font_names = env.names
          /\ default_font = env.dflt
    /\ LocalsInit

\* the call ends by raising e
Raise(e) ==
    /\ pc' = "error"
    /\ err' = e

\* lines 95-99: decode the image, create the transparent layer
Decode ==
    /\ pc = "start"
    /\ IF image_ok
       THEN /\ txt' = <<width, height>>
            /\ pc' = "font"
            /\ UNCHANGED err
       ELSE /\ Raise("UnidentifiedImageError")
            /\ UNCHANGED txt
    /\ UNCHANGED <<api, inputs, handler, max_text_width, font_size, font, lines, line_heights,
                   total_text_height, sample_h, upscale_factor, upscale_layer,
                   text_block_height, y, rect, drawn, paste, out>>

\* lines 102-151: font size and font; an exception of the block leaves
\* font_size unbound and selects the default font
ResolveFont ==
    /\ pc = "font"
    /\ IF text_scale.finite
       THEN /\ font_size' = FontSize(width, text_scale)
            /\ font' = SelectFont(font_files, font_names, default_font, font_size')
       ELSE /\ font_size' = font_size
            /\ font' = LoadDefault(default_font)
    /\ pc' = "wrap"
    /\ UNCHANGED <<api, err, inputs, handler, max_text_width, txt, lines, line_heights, total_text_height,
                   sample_h, upscale_factor, upscale_layer, text_block_height,
                   y, rect, drawn, paste, out>>

\* some paragraph makes wrap_text_by_pixel measure
RECURSIVE AnyMeasured(_)
AnyMeasured(paragraphs) ==
    IF paragraphs = <<>> THEN FALSE
    ELSE WrapMeasures(Head(paragraphs)) \/ AnyMeasured(Tail(paragraphs))

\* lines 169-189: wrap every paragraph of the text
WrapText ==
    /\ pc = "wrap"
    /\ max_text_width' = MaxTextWidth(width)
    /\ IF TextSizeRaises(draw, font) /\ AnyMeasured(SplitOn(text, "\n", <<>>))
       THEN /\ Raise("ValueError")
            /\ UNCHANGED lines
       ELSE /\ lines' = WrapAll(draw, text, font, max_text_width')
            /\ pc' = "measure"
            /\ UNCHANGED err
    /\ UNCHANGED <<api, inputs, handler, txt, font_size, font, line_heights,
                   total_text_height, sample_h, upscale_factor, upscale_layer,
                   text_block_height, y, rect, drawn, paste, out>>

\* line_heights = [_text_size(draw, line, font)[1] for line in lines]
LineHeights(draw_obj, ls, fnt) ==
    [i \in 1..Len(ls) |-> _text_size(draw_obj, ls[i], fnt)[2]]

\* total_text_height = sum(line_heights) + (len(lines) - 1) * 8
TotalTextHeight(hs, n) == Sum(hs) + (n - 1) * LineGap

\* sample_h = line_heights[0] if line_heights else 0
SampleH(hs) == IF hs # <<>> THEN hs[1] ELSE 0

\* lines 193-204: measure the block and sample the first line
Measure ==
    /\ pc = "measure"
    /\ IF TextSizeRaises(draw, font)
       THEN /\ Raise("ValueError")
            /\ UNCHANGED <<line_heights, total_text_height, sample_h>>
       ELSE /\ line_heights' = LineHeights(draw, lines, font)
            /\ total_text_height' = TotalTextHeight(line_heights', Len(lines))
            /\ sample_h' = SampleH(line_heights')
            /\ pc' = "plan"
            /\ UNCHANGED err
    /\ UNCHANGED <<api, inputs, handler, max_text_width, txt, font_size, font, lines, upscale_factor,
                   upscale_layer, text_block_height, y, rect, drawn, paste, out>>

\* the test with <= for <
TakeUpscaleAtFloor(h) == h <= MIN_PX

\* if sample_h < MIN_PX
TakeUpscale(h) == h < MIN_PX

\* lines 205-243: render the block small, enlarge it, paste it centred
DrawUpscale ==
    /\ pc = "plan"
    /\ TakeUpscale(sample_h)
    /\ upscale_factor' = UpscaleFactor(sample_h)
    /\ IF font_size < 0
       THEN /\ Raise("UnboundLocalError")
            /\ UNCHANGED <<text_block_height, rect, drawn, upscale_layer,
                           total_text_height, y, paste>>
       ELSE /\ text_block_height' = total_text_height + BlockMargin(font_size)
            /\ rect' = <<PaddingX(width), 0, width - PaddingX(width), text_block_height'>>
            /\ drawn' = DrawLines(draw, lines, font, width,
                                  (3 * PaddingY(font_size)) \div 10, font_size)
            /\ upscale_layer' = <<width * upscale_factor', text_block_height' * upscale_factor'>>
            /\ total_text_height' = upscale_layer'[2]
            /\ y' = CentreTop(height, total_text_height')
            /\ paste' = <<(width - upscale_layer'[1]) \div 2, y'>>
            /\ pc' = "composite"
            /\ UNCHANGED err
    /\ UNCHANGED <<api, inputs, handler, max_text_width, txt, font_size, font, lines, line_heights, sample_h, out>>

\* lines 237, 244-260: draw the backdrop and the lines on the full-size layer
DrawNative ==
    /\ pc = "plan"
    /\ ~TakeUpscale(sample_h)
    /\ y' = CentreTop(height, total_text_height)
    /\ IF font_size < 0
       THEN /\ Raise("UnboundLocalError")
            /\ UNCHANGED <<rect, drawn>>
       ELSE /\ rect' = <<PaddingX(width), y' - PaddingY(font_size),
                         width - PaddingX(width),
                         y' + total_text_height + PaddingY(font_size)>>
            /\ drawn' = DrawLines(draw, lines, font, width, y', font_size)
            /\ pc' = "composite"
            /\ UNCHANGED err
    /\ UNCHANGED <<api, inputs, handler, max_text_width, txt, font_size, font, lines, line_heights,
                   total_text_height, sample_h, upscale_factor, upscale_layer,
                   text_block_height, paste, out>>

\* the merge step handing the call back to the draw decision
CompositeRedraws ==
    /\ pc = "composite"
    /\ pc' = "plan"
    /\ UNCHANGED <<api, err, inputs, locals, handler>>

\* Image.alpha_composite(base, txt).convert("RGB")
Flatten(base, layer) == convert(alpha_composite(base, layer), "RGB")

\* line 262: merge the layer with the base image and drop the alpha channel
Composite ==
    /\ pc = "composite"
    /\ IF txt = <<width, height>>
       THEN /\ out' = Flatten(<<width, height>>, txt)
            /\ pc' = "encode"
            /\ UNCHANGED err
       ELSE /\ Raise("ValueError")
            /\ UNCHANGED out
    /\ UNCHANGED <<api, inputs, handler, max_text_width, txt, font_size, font, lines, line_heights,
                   total_text_height, sample_h, upscale_factor, upscale_layer,
                   text_block_height, y, rect, drawn, paste>>

\* lines 263-266: encode the image as PNG and return the bytes; the encoder
\* may fail
Encode ==
    /\ pc = "encode"
    /\ \E saved \in BOOLEAN :
          IF saved
          THEN /\ pc' = "done"
               /\ UNCHANGED err
          ELSE Raise("OSError")
    /\ UNCHANGED <<api, inputs, locals, handler>>

\* raise HTTPException(status_code=500, detail=f"Failed to overlay text: {e}")
OverlayFailure(e) ==
    [status |-> 500, detail |-> "Failed to overlay text: ", message |-> e]

\* the overlay step succeeded: quote_image goes on to save the quote
OverlayDone == [status |-> 200, detail |-> "", message |-> ""]

\* main.py lines 389-395: the render call that quote_image makes passes
\* text_scale=0.03; every exception of it becomes an HTTPException
OverlayStep ==
    /\ pc \in {"done", "error"}
    /\ text_scale = Scale(30)
    /\ handler = NoOutcome
    /\ handler' = IF pc = "error" THEN OverlayFailure(err) ELSE OverlayDone
    /\ UNCHANGED <<api, pc, err, inputs, locals>>

Next ==
    \/ Decode
    \/ ResolveFont
    \/ WrapText
    \/ Measure
    \/ DrawUpscale
    \/ DrawNative
    \/ Composite
    \/ Encode
    \/ OverlayStep

Spec == Init /\ [][Next]_vars

----------------------------------------------------------------------------
(* Calls one after another: when a call has returned or raised, the next   *)
(* call of overlay_text_on_image starts with new arguments and a new frame *)
(* of locals; the function reads and writes no module-level name.          *)

MaxCallLen == 1
CallWidths == {40, 1000}
CallScales == {Scale(30), NaN}
CallDrawObjects == {"textbbox", "none"}

InitCalls ==
    /\ pc = "start"
    /\ err = ""
    /\ image_ok \in BOOLEAN
    /\ width \in CallWidths
    /\ height = 30
    /\ text \in StringsUpTo(MaxCallLen)
    /\ text_scale \in CallScales
    /\ draw \in CallDrawObjects
    /\ \E env \in FontEnvs :
          /\ font_files = env.files
          /\ font_names = env.names
          /\ default_font = env.dflt
    /\ LocalsInit

\* line 81: the function is entered again; every local is unbound again
NextCall ==
    /\ pc \in {"done", "error"}
    /\ pc' = "start"
    /\ err' = ""
    /\ image_ok' \in BOOLEAN
    /\ width' \in CallWidths
    /\ height' = 30
    /\ text' \in StringsUpTo(MaxCallLen)
    /\ text_scale' \in CallScales
    /\ draw' \in CallDrawObjects
    /\ \E env \in FontEnvs :
          /\ font_files' = env.files
          /\ font_names' = env.names
          /\ default_font' = env.dflt
    /\ txt' = None
    /\ font_size' = -1
    /\ font' = NoFont
    /\ lines' = <<>>
    /\ line_heights' = <<>>
    /\ total_text_height' = 0
    /\ sample_h' = 0
    /\ upscale_factor' = 1
    /\ upscale_layer' = None
    /\ text_block_height' = 0
    /\ y' = 0
    /\ rect' = None
    /\ drawn' = <<>>
    /\ paste' = None
    /\ out' = None
    /\ max_text_width' = 0
    /\ UNCHANGED <<handler, api>>

NextCalls ==
    \/ Decode
    \/ ResolveFont
    \/ WrapText
    \/ Measure
    \/ DrawUpscale
    \/ DrawNative
    \/ Composite
    \/ Encode
    \/ NextCall

SpecCalls == InitCalls /\ [][NextCalls]_vars

----------------------------------------------------------------------------
(* Whole calls with longer texts on a large image, where a scalable font   *)
(* from the path list is available: blocks of several lines at font sizes  *)
(* of 30 and 500 px.                                                       *)

MaxDrawLen == 6
DrawScales == {Scale(30), Scale(500)}

InitDraw ==
    /\ pc = "start"
    /\ err = ""
    /\ image_ok = TRUE
    /\ width = 1000
    /\ height = 1000
    /\ text \in StringsUpTo(MaxDrawLen)
    /\ text_scale \in DrawScales
    /\ draw = "textbbox"
    /\ font_files = [i \in 1..NumPaths |-> "ok"]
    /\ font_names = 1..NumNames
    /\ default_font = "bitmap"
    /\ LocalsInit

SpecDraw == InitDraw /\ [][Next]_vars

----------------------------------------------------------------------------
(* The wrapping step alone: the call has decoded the image and resolved a  *)
(* font and is about to wrap; many texts, two narrow images.               *)

WrapWidths == {14, 40}
WrapScales == {Scale(30), Scale(500)}
WrapFontEnvs == {env \in FontEnvs : env.dflt = "bitmap" /\ env.names # {2}}

InitWrap ==
    /\ pc = "wrap"
    /\ err = ""
    /\ image_ok = TRUE
    /\ width \in WrapWidths
    /\ height = 30
    /\ text \in StringsUpTo(MaxWrapLen)
    /\ text_scale \in WrapScales
    /\ draw \in DrawObjects
    /\ \E env \in WrapFontEnvs :
          /\ font_files = env.files
          /\ font_names = env.names
          /\ default_font = env.dflt
    /\ txt = <<width, height>>
    /\ font_size = FontSize(width, text_scale)
    /\ font = SelectFont(font_files, font_names, default_font, font_size)
    /\ lines = <<>>
    /\ line_heights = <<>>
    /\ total_text_height = 0
    /\ sample_h = 0
    /\ upscale_factor = 1
    /\ upscale_layer = None
    /\ text_block_height = 0
    /\ y = 0
    /\ rect = None
    /\ drawn = <<>>
    /\ paste = None
    /\ out = None
    /\ max_text_width = 0
    /\ handler = NoOutcome
    /\ ApiIdle

SpecWrap == InitWrap /\ [][WrapText]_vars

(* Font resolution alone: every combination of candidates that load.       *)

InitFont ==
    /\ pc = "start"
    /\ err = ""
    /\ image_ok = TRUE
    /\ width = 1000
    /\ height = 1000
    /\ text = <<"a">>
    /\ text_scale \in {Scale(0), Scale(30), NaN}
    /\ draw = "textbbox"
    /\ font_files \in AllFiles
    /\ font_names \in AllNames
    /\ default_font \in Defaults
    /\ LocalsInit

NextFont == Decode \/ ResolveFont

SpecFont == InitFont /\ [][NextFont]_vars

----------------------------------------------------------------------------
(* The API server: requests of clients against the users table, the quotes *)
(* table and the image directory.  The render variables stay at rest here; *)
(* the render call of quote_image is an outcome of its generation steps.   *)

MaxQuotes == 2
MaxAuthQuotes == 1
MaxTime == 1
\* config.cfg: ACCESS_TOKEN_EXPIRE_MINUTES = 1 and REFRESH_TOKEN_EXPIRE_DAYS = 1,
\* in seconds of the clock
AccessLife == 60
RefreshLife == 86400
\* timedelta(minutes=15) and timedelta(days=7), in seconds
DefaultAccessLife == 900
DefaultRefreshLife == 604800

\* the readings of the clock: the start of the server, and seconds at which
\* an access token issued at the start has expired
Instants == {0} \cup {AccessLife + t : t \in 1..MaxTime}

RenderIdle ==
    /\ pc = "start"
    /\ err = ""
    /\ image_ok = TRUE
    /\ width = 1000
    /\ height = 1000
    /\ text = <<>>
    /\ text_scale = Scale(30)
    /\ draw = "textbbox"
    /\ font_files = [i \in 1..NumPaths |-> "ok"]
    /\ font_names = 1..NumNames
    /\ default_font = "bitmap"
    /\ txt = None
    /\ font_size = -1
    /\ font = NoFont
    /\ lines = <<>>
    /\ line_heights = <<>>
    /\ total_text_height = 0
    /\ sample_h = 0
    /\ upscale_factor = 1
    /\ upscale_layer = None
    /\ text_block_height = 0
    /\ y = 0
    /\ rect = None
    /\ drawn = <<>>
    /\ paste = None
    /\ out = None
    /\ max_text_width = 0
    /\ handler = NoOutcome

\* to_encode = {"sub": ..., "exp": utcnow() + expires_delta}, signed; the
\* payload is sub and exp, issued_as only records which of the two functions
\* made the token and no check of the server reads it
\* 'if expires_delta:' is false for a delta of zero (and for None): the
\* token then lives 15 minutes, the refresh token 7 days
create_access_token(sub, expires_delta) ==
    [sub |-> sub,
     exp |-> now + (IF expires_delta # 0 THEN expires_delta ELSE DefaultAccessLife),
     issued_as |-> "access_token"]
create_refresh_token(sub, expires_delta) ==
    [sub |-> sub,
     exp |-> now + (IF expires_delta # 0 THEN expires_delta ELSE DefaultRefreshLife),
     issued_as |-> "refresh_token"]

\* jwt.decode raises JWTError for a foreign string and for a token whose
\* exp has passed
JWTError(token) == token = NoToken \/ token.exp < now

\* get_user(username): the row of the users table, NoUser when there is none
get_user(username) == IF username \in Usernames THEN users[username] ELSE NoUser

\* get_current_user, lines 136-139: 401 when get_user found no row
get_current_user(user) == IF ~user.exists THEN 401 ELSE 200

\* the dependency without the test of the disabled flag
ActiveUnchecked(user) == get_current_user(user)

\* get_current_active_user: 400 when the row it was handed is disabled
get_current_active_user(user) ==
    IF get_current_user(user) # 200 THEN get_current_user(user)
    ELSE IF user.disabled THEN 400
    ELSE 200

\* the detail of the HTTPException of a failed dependency
AuthDetail(status) ==
    IF status = 400 THEN "Inactive user" ELSE "Could not validate credentials"

\* what a client can send as a credential
Presented == {access_token, refresh_token, NoToken}

\* a response, with the request it answers: the path parameter id (0 when
\* the endpoint has none) and the credential sent; cause is the exception
\* the handler caught ("" when none), body the rows returned
Respond(endpoint, id, token, status, detail, cause, body) ==
    [endpoint |-> endpoint, id |-> id, token |-> token, status |-> status,
     detail |-> detail, cause |-> cause, body |-> body]

\* the response of a request of client c whose dependency raised
Rejected(c, status) ==
    Respond(requests[c].endpoint, requests[c].id, requests[c].token, status,
            AuthDetail(status), "", <<>>)

\* generate_filenames(quote_id) at the clock reading ts
RawName(id, ts) == [kind |-> "raw", id |-> id, ts |-> ts]
OverlayName(id, ts) == [kind |-> "overlay", id |-> id, ts |-> ts]

\* the names of the POST of client c, once generate_filenames has run
PostRaw(c) == RawName(requests[c].quote_id, requests[c].ts)
PostOverlay(c) == OverlayName(requests[c].quote_id, requests[c].ts)

\* the coroutines of /token and /refresh run on the one event loop of the
\* server and hold it from their first statement to their return: no other
\* coroutine runs in between, while the threads of the def endpoints, the
\* console and the clock go on
LoopFree ==
    \A c \in DOMAIN requests :
        requests[c].pc = "idle" \/ requests[c].endpoint \notin {"/token", "/refresh"}

\* a request that arrived with a token that decodes: get_user is still to run
Decoded(endpoint, id, token) ==
    [NoRequest EXCEPT !.pc = "get_user", !.endpoint = endpoint, !.id = id,
                      !.token = token]

\* a request that passed the dependency: the endpoint body is still to run
Admitted(c) ==
    [requests[c] EXCEPT
        !.pc = IF requests[c].endpoint = "/quote-image" THEN "generate" ELSE "body"]

\* Depends(get_current_active_user) of the endpoints of main.py and of
\* /users/me, first part: get_current_user, lines 121-134, decodes the token
\* at the clock reading of that moment and answers 401 itself
Depends(c, endpoint, id, token) ==
    /\ requests[c].pc = "idle"
    /\ IF JWTError(token)
       THEN /\ response' = Respond(endpoint, id, token, 401, AuthDetail(401), "", <<>>)
            /\ UNCHANGED requests
       ELSE /\ requests' = [requests EXCEPT ![c] = Decoded(endpoint, id, token)]
            /\ response' = NoResponse
    /\ UNCHANGED <<render, users, console, now, access_token, refresh_token, rows,
                   image_files>>

\* second part, lines 136-145: get_user reads the users table, later than
\* the token was decoded; get_current_user answers 401 when there is no row,
\* get_current_active_user 400 when the row it was handed is disabled; the
\* endpoint body runs afterwards, in steps of its own
current_user(c) ==
    /\ requests[c].pc = "get_user"
    /\ requests[c].endpoint \in ProtectedEndpoints
    /\ LET status == get_current_active_user(get_user(requests[c].token.sub))
       IN  IF status # 200
           THEN /\ response' = Rejected(c, status)
                /\ requests' = [requests EXCEPT ![c] = NoRequest]
           ELSE /\ requests' = [requests EXCEPT ![c] = Admitted(c)]
                /\ response' = NoResponse
    /\ UNCHANGED <<render, users, console, now, access_token, refresh_token, rows,
                   image_files>>

\* the handler of client c raises HTTPException(500, detail): the request ends
Fails(c, detail, cause) ==
    /\ response' = Respond(requests[c].endpoint, requests[c].id, requests[c].token,
                           500, detail, cause, <<>>)
    /\ requests' = [requests EXCEPT ![c] = NoRequest]

\* main.py lines 373-395: the quote, the image prompt, the image and the
\* overlay; each of the four may raise
quote_image(c) ==
    /\ requests[c].pc = "generate"
    /\ \E failing \in {"none", "quote", "prompt", "image", "overlay"} :
          IF failing = "none"
          THEN /\ requests' = [requests EXCEPT ![c].pc = "insert"]
               /\ response' = NoResponse
          ELSE Fails(c, IF failing = "overlay" THEN "Failed to overlay text: "
                        ELSE "str(e)", failing)
    /\ UNCHANGED <<render, users, console, now, access_token, refresh_token, rows,
                   image_files>>

\* no other connection is between its INSERT and its commit: it would hold
\* the write lock of the quotes database
WriteLockFree(c) ==
    \A o \in DOMAIN requests \ {c} : requests[o].pc # "commit"

\* database.py lines 44-50: the INSERT with both names "temp" takes the
\* write lock, the next id and CURRENT_TIMESTAMP for created_at; the row is
\* not committed yet.  While another connection holds the lock the INSERT
\* waits, and raises when that lasts 5 s
quote_image_insert(c) ==
    /\ requests[c].pc = "insert"
    /\ \E executed \in BOOLEAN :
          IF executed
          THEN /\ WriteLockFree(c)
               /\ requests' = [requests EXCEPT ![c].pc = "commit",
                                               ![c].quote_id = Len(rows) + 1,
                                               ![c].created_at = now]
               /\ response' = NoResponse
          ELSE Fails(c, "Failed to save quote data: ", "insert_quote")
    /\ UNCHANGED <<render, users, console, now, access_token, refresh_token, rows,
                   image_files>>

\* database.py lines 51-52: conn.commit() makes the row visible to the other
\* connections and insert_quote returns its id; a commit that raises leaves
\* no row
quote_image_commit(c) ==
    /\ requests[c].pc = "commit"
    /\ \E committed \in BOOLEAN :
          IF committed
          THEN /\ rows' = Append(rows, [id |-> requests[c].quote_id, raw |-> TempName,
                                        overlay |-> TempName,
                                        created_at |-> requests[c].created_at])
               /\ requests' = [requests EXCEPT ![c].pc = "names"]
               /\ response' = NoResponse
          ELSE /\ Fails(c, "Failed to save quote data: ", "insert_quote")
               /\ UNCHANGED rows
    /\ UNCHANGED <<render, users, console, now, access_token, refresh_token, image_files>>

\* main.py line 408, filesystem.py lines 18-23: generate_filenames reads the
\* clock, which may have moved since the INSERT
quote_image_names(c) ==
    /\ requests[c].pc = "names"
    /\ requests' = [requests EXCEPT ![c].pc = "update", ![c].ts = now]
    /\ response' = NoResponse
    /\ UNCHANGED <<render, users, console, now, access_token, refresh_token, rows,
                   image_files>>

\* main.py line 411: update_filenames commits the two names, later than
\* they were made
quote_image_update(c) ==
    /\ requests[c].pc = "update"
    /\ \E committed \in BOOLEAN :
          IF committed
          THEN /\ WriteLockFree(c)
               /\ rows' = [rows EXCEPT ![requests[c].quote_id].raw = PostRaw(c),
                                       ![requests[c].quote_id].overlay = PostOverlay(c)]
               /\ requests' = [requests EXCEPT ![c].pc = "save_raw"]
               /\ response' = NoResponse
          ELSE /\ Fails(c, "Failed to save quote data: ", "update_filenames")
               /\ UNCHANGED rows
    /\ UNCHANGED <<render, users, console, now, access_token, refresh_token, image_files>>

\* filesystem.py lines 36-37: open(raw_path, 'wb') creates the file, write
\* fills it; either may raise
quote_image_save_raw(c) ==
    /\ requests[c].pc = "save_raw"
    /\ \E outcome \in {"written", "open_raises", "write_raises"} :
          /\ image_files' = IF outcome = "open_raises" THEN image_files
                            ELSE image_files \cup {PostRaw(c)}
          /\ IF outcome = "written"
             THEN /\ requests' = [requests EXCEPT ![c].pc = "save_overlay"]
                  /\ response' = NoResponse
             ELSE Fails(c, "Failed to save quote data: ", "save_images")
    /\ UNCHANGED <<render, users, console, now, access_token, refresh_token, rows>>

\* filesystem.py lines 39-40 and main.py line 422: the overlay file, then
\* the image is the response
quote_image_save_overlay(c) ==
    /\ requests[c].pc = "save_overlay"
    /\ \E outcome \in {"written", "open_raises", "write_raises"} :
          /\ image_files' = IF outcome = "open_raises" THEN image_files
                            ELSE image_files \cup {PostOverlay(c)}
          /\ IF outcome = "written"
             THEN /\ response' = Respond("/quote-image", 0, requests[c].token, 200,
                                         "", "", <<>>)
                  /\ requests' = [requests EXCEPT ![c] = NoRequest]
             ELSE Fails(c, "Failed to save quote data: ", "save_images")
    /\ UNCHANGED <<render, users, console, now, access_token, refresh_token, rows>>

\* ORDER BY created_at DESC: the newest row first; SQLite gives rows of the
\* same second in the order of their ids
RECURSIVE NewestFirst(_)
NewestFirst(table) ==
    IF table = {} THEN <<>>
    ELSE LET first == CHOOSE r \in table :
                        \A o \in table :
                            \/ o.created_at < r.created_at
                            \/ (o.created_at = r.created_at /\ o.id >= r.id)
         IN  <<first>> \o NewestFirst(table \ {first})

\* database.py lines 66-73: SELECT * FROM quotes ORDER BY created_at DESC
get_all_quotes == NewestFirst({rows[i] : i \in 1..Len(rows)})

\* main.py lines 427-432: the body of GET /quotes
list_quotes(c) ==
    /\ requests[c].pc = "body"
    /\ requests[c].endpoint = "/quotes"
    /\ \E selected \in BOOLEAN :
          IF selected
          THEN /\ response' = Respond("/quotes", 0, requests[c].token, 200, "", "",
                                      get_all_quotes)
               /\ requests' = [requests EXCEPT ![c] = NoRequest]
          ELSE Fails(c, "Failed to retrieve quotes: ", "get_all_quotes")
    /\ UNCHANGED <<render, users, console, now, access_token, refresh_token, rows,
                   image_files>>

\* lines 438-444: the HTTPException(404) is raised inside the try block and
\* caught by its except Exception, like a failure of the lookup
GetQuoteResponse(token, quote_id, selected) ==
    IF ~selected
    THEN Respond("/quotes/{quote_id}", quote_id, token, 500,
                 "Failed to retrieve quote: ", "get_quote_by_id", <<>>)
    ELSE IF quote_id \notin 1..Len(rows)
    THEN Respond("/quotes/{quote_id}", quote_id, token, 500,
                 "Failed to retrieve quote: ", "HTTPException", <<>>)
    ELSE Respond("/quotes/{quote_id}", quote_id, token, 200, "", "", <<rows[quote_id]>>)

\* main.py lines 437-444: the body of GET /quotes/{quote_id}
get_quote(c) ==
    /\ requests[c].pc = "body"
    /\ requests[c].endpoint = "/quotes/{quote_id}"
    /\ \E selected \in BOOLEAN :
          response' = GetQuoteResponse(requests[c].token, requests[c].id, selected)
    /\ requests' = [requests EXCEPT ![c] = NoRequest]
    /\ UNCHANGED <<render, users, console, now, access_token, refresh_token, rows,
                   image_files>>

\* time passes: the clock of the host shows a later instant
Tick ==
    /\ \E later \in Instants :
          /\ later > now
          /\ now' = later
    /\ response' = NoResponse
    /\ UNCHANGED <<render, users, console, access_token, refresh_token, rows, image_files,
                   requests>>

\* a logged-in user on two connections, no quote yet
InitQuotes ==
    /\ RenderIdle
    /\ users = [u \in Usernames |-> IF u = "demo" THEN NewUser("pw1") ELSE NoUser]
    /\ now = 0
    /\ access_token = create_access_token("demo", AccessLife)
    /\ refresh_token = create_refresh_token("demo", RefreshLife)
    /\ rows = <<>>
    /\ image_files = {}
    /\ requests = [c \in Clients |-> NoRequest]
    /\ console = "closed"
    /\ response = NoResponse

\* the POSTs that have not committed their row yet
Uninserted ==
    {c \in DOMAIN requests :
        /\ requests[c].endpoint = "/quote-image"
        /\ requests[c].pc \in {"get_user", "generate", "insert", "commit"}}

\* the requests the clients send, with any credential they have; a POST is
\* sent only while the table stays within limit rows, and the ids asked for
\* are those such a table can hold
PostWithin(limit) ==
    \E c \in DOMAIN requests, token \in Presented :
        /\ Len(rows) + Cardinality(Uninserted) < limit
        /\ Depends(c, "/quote-image", 0, token)
PostQuoteImage == PostWithin(MaxQuotes)
GetQuotes == \E c \in DOMAIN requests, token \in Presented : Depends(c, "/quotes", 0, token)
GetWithin(limit) ==
    \E c \in DOMAIN requests, token \in Presented, quote_id \in 1..limit :
        Depends(c, "/quotes/{quote_id}", quote_id, token)
GetQuote == GetWithin(MaxQuotes)

\* the steps of the dependency and of the handlers
CurrentUser == \E c \in DOMAIN requests : current_user(c)
Generate == \E c \in DOMAIN requests : quote_image(c)
Insert == \E c \in DOMAIN requests : quote_image_insert(c)
Commit == \E c \in DOMAIN requests : quote_image_commit(c)
Names == \E c \in DOMAIN requests : quote_image_names(c)
Update == \E c \in DOMAIN requests : quote_image_update(c)
SaveRaw == \E c \in DOMAIN requests : quote_image_save_raw(c)
SaveOverlay == \E c \in DOMAIN requests : quote_image_save_overlay(c)
ListQuotes == \E c \in DOMAIN requests : list_quotes(c)
ReadQuote == \E c \in DOMAIN requests : get_quote(c)

NextQuotes ==
    \/ PostQuoteImage
    \/ CurrentUser
    \/ Generate
    \/ Insert
    \/ Commit
    \/ Names
    \/ Update
    \/ SaveRaw
    \/ SaveOverlay
    \/ GetQuotes
    \/ ListQuotes
    \/ GetQuote
    \/ ReadQuote
    \/ Tick

SpecQuotes == InitQuotes /\ [][NextQuotes]_vars

----------------------------------------------------------------------------
(* Users, login and refresh *)

Passwords == {"pw1", "pw2"}

\* a write of the users table from a console process while another
\* connection holds its write transaction: sqlite3 waits 5 s and raises
\* OperationalError "database is locked", nothing catches it and main() of
\* that console ends; when it is the console that holds the transaction
\* (its collector has not freed the connection create_user left behind),
\* the transaction ends with it
Locked(same_console) ==
    /\ console = "open"
    /\ console' = IF same_console THEN "closed" ELSE "open"
    /\ UNCHANGED users

\* user_crud_console_util.py lines 40-52: the INSERT names no disabled
\* column; an existing username raises IntegrityError, which is caught
\* without a rollback or a close: the connection keeps its transaction
\* open until the console ends or its collector frees the connection
create_user(username, password) ==
    /\ \/ \E same_console \in BOOLEAN : Locked(same_console)
       \/ /\ console = "closed"
          /\ IF users[username].exists
             THEN /\ console' = "open"
                  /\ UNCHANGED users
             ELSE /\ users' = [users EXCEPT ![username] = NewUser(password)]
                  /\ UNCHANGED console
    /\ response' = NoResponse
    /\ UNCHANGED <<render, now, access_token, refresh_token, rows, image_files, requests>>

\* lines 54-81: UPDATE ... WHERE username = ?, of e-mail, full name and
\* password; the disabled column is not among them
update_user(username, password) ==
    /\ \/ \E same_console \in BOOLEAN : Locked(same_console)
       \/ /\ console = "closed"
          /\ users' = IF users[username].exists
                      THEN [users EXCEPT ![username].pw = password]
                      ELSE users
          /\ UNCHANGED console
    /\ response' = NoResponse
    /\ UNCHANGED <<render, now, access_token, refresh_token, rows, image_files, requests>>

\* lines 83-92: DELETE FROM users WHERE username = ?
delete_user(username) ==
    /\ \/ \E same_console \in BOOLEAN : Locked(same_console)
       \/ /\ console = "closed"
          /\ users' = [users EXCEPT ![username] = NoUser]
          /\ UNCHANGED console
    /\ response' = NoResponse
    /\ UNCHANGED <<render, now, access_token, refresh_token, rows, image_files, requests>>

\* lines 94-105: SELECT username, email, full_name, disabled FROM users, a
\* read that an open write transaction does not block and that changes no
\* row.  The connection that create_user left behind is garbage of the
\* console process, and its transaction lasts until the collector frees
\* it: a listing run by that console allocates one tuple per row fetched,
\* which can start a collection (it did with 801 rows in the table, not
\* with one).  The rows of other usernames are not counted here, so whether
\* the collection happens is either outcome; the console goes on and its
\* later writes find the database unlocked
list_users ==
    /\ \E collected \in BOOLEAN :
          console' = IF collected THEN "closed" ELSE console
    /\ response' = NoResponse
    /\ UNCHANGED <<render, users, now, access_token, refresh_token, rows, image_files,
                   requests>>

\* lines 138-140: choice 5 ends the console, and with it a transaction it
\* still holds
console_exit ==
    /\ console = "open"
    /\ console' = "closed"
    /\ response' = NoResponse
    /\ UNCHANGED <<render, users, now, access_token, refresh_token, rows, image_files,
                   requests>>

\* the disabled column of the users table (auth_funcs.py lines 57-69), which
\* no function of the repository writes: set in the database itself, while
\* no other connection holds a write transaction
set_disabled(username, disabled) ==
    /\ console = "closed"
    /\ users[username].exists
    /\ users' = [users EXCEPT ![username].disabled = disabled]
    /\ response' = NoResponse
    /\ UNCHANGED <<render, now, access_token, refresh_token, rows, image_files,
                   requests, console>>

\* auth_funcs.py lines 93-99: the disabled column is not looked at
authenticate_user(username, password) ==
    /\ get_user(username) # NoUser
    /\ get_user(username).pw = password

\* lines 151-173: POST /token authenticates against the users table
login_for_access_token(c, username, password) ==
    /\ LoopFree
    /\ requests[c].pc = "idle"
    /\ IF ~authenticate_user(username, password)
       THEN /\ response' = Respond("/token", 0, NoToken, 401,
                                   "Incorrect username or password", "", <<>>)
            /\ UNCHANGED requests
       ELSE /\ requests' = [requests EXCEPT ![c] =
                               [NoRequest EXCEPT !.pc = "access_token",
                                                 !.endpoint = "/token",
                                                 !.username = username]]
            /\ response' = NoResponse
    /\ UNCHANGED <<render, users, console, now, access_token, refresh_token, rows,
                   image_files>>

\* lines 174-176: create_access_token reads the clock
login_access_token(c) ==
    /\ requests[c].pc = "access_token"
    /\ requests[c].endpoint = "/token"
    /\ requests' = [requests EXCEPT
                       ![c].pc = "refresh_token",
                       ![c].access = create_access_token(requests[c].username, AccessLife)]
    /\ response' = NoResponse
    /\ UNCHANGED <<render, users, console, now, access_token, refresh_token, rows,
                   image_files>>

\* lines 177-180: create_refresh_token reads the clock again; the client
\* keeps the two tokens of the answer
login_refresh_token(c) ==
    /\ requests[c].pc = "refresh_token"
    /\ requests[c].endpoint = "/token"
    /\ access_token' = requests[c].access
    /\ refresh_token' = create_refresh_token(requests[c].username, RefreshLife)
    /\ response' = Respond("/token", 0, NoToken, 200, "", "", <<>>)
    /\ requests' = [requests EXCEPT ![c] = NoRequest]
    /\ UNCHANGED <<render, users, console, now, rows, image_files>>

\* lines 183-210: POST /refresh decodes the token of the request like a
\* bearer token, at the clock reading of that moment
refresh_access_token(c, token) ==
    /\ LoopFree
    /\ requests[c].pc = "idle"
    /\ IF JWTError(token)
       THEN /\ response' = Respond("/refresh", 0, token, 401,
                                   "Could not validate credentials", "", <<>>)
            /\ UNCHANGED requests
       ELSE /\ requests' = [requests EXCEPT ![c] = Decoded("/refresh", 0, token)]
            /\ response' = NoResponse
    /\ UNCHANGED <<render, users, console, now, access_token, refresh_token, rows,
                   image_files>>

\* lines 211-213: get_user reads the users table; the disabled column is
\* not looked at
refresh_get_user(c) ==
    /\ requests[c].pc = "get_user"
    /\ requests[c].endpoint = "/refresh"
    /\ IF get_current_user(get_user(requests[c].token.sub)) # 200
       THEN /\ response' = Rejected(c, 401)
            /\ requests' = [requests EXCEPT ![c] = NoRequest]
       ELSE /\ requests' = [requests EXCEPT ![c].pc = "access_token"]
            /\ response' = NoResponse
    /\ UNCHANGED <<render, users, console, now, access_token, refresh_token, rows,
                   image_files>>

\* lines 215-219: create_access_token reads the clock; the token of the
\* request is sent back as the refresh_token of the answer
refresh_create_token(c) ==
    /\ requests[c].pc = "access_token"
    /\ requests[c].endpoint = "/refresh"
    /\ access_token' = create_access_token(requests[c].token.sub, AccessLife)
    /\ refresh_token' = requests[c].token
    /\ response' = Respond("/refresh", 0, requests[c].token, 200, "", "", <<>>)
    /\ requests' = [requests EXCEPT ![c] = NoRequest]
    /\ UNCHANGED <<render, users, console, now, rows, image_files>>

\* lines 222-224: the body of GET /users/me, a coroutine, returns the user
\* its dependency read
read_users_me(c) ==
    /\ LoopFree
    /\ requests[c].pc = "body"
    /\ requests[c].endpoint = "/users/me"
    /\ response' = Respond("/users/me", 0, requests[c].token, 200, "", "", <<>>)
    /\ requests' = [requests EXCEPT ![c] = NoRequest]
    /\ UNCHANGED <<render, users, console, now, access_token, refresh_token, rows,
                   image_files>>

\* no user yet, two connections, a client without tokens
InitAuth ==
    /\ RenderIdle
    /\ users = [u \in Usernames |-> NoUser]
    /\ now = 0
    /\ access_token = NoToken
    /\ refresh_token = NoToken
    /\ rows = <<>>
    /\ image_files = {}
    /\ requests = [c \in Clients |-> NoRequest]
    /\ console = "closed"
    /\ response = NoResponse

CreateUser == \E username \in Usernames, password \in Passwords :
                create_user(username, password)
UpdateUser == \E username \in Usernames, password \in Passwords :
                update_user(username, password)
DeleteUser == \E username \in Usernames : delete_user(username)
SetDisabled == \E username \in Usernames, disabled \in BOOLEAN :
                 set_disabled(username, disabled)
Login == \E c \in DOMAIN requests, username \in Usernames, password \in Passwords :
           login_for_access_token(c, username, password)
LoginAccessToken == \E c \in DOMAIN requests : login_access_token(c)
LoginRefreshToken == \E c \in DOMAIN requests : login_refresh_token(c)
Refresh == \E c \in DOMAIN requests, token \in Presented : refresh_access_token(c, token)
RefreshGetUser == \E c \in DOMAIN requests : refresh_get_user(c)
RefreshCreateToken == \E c \in DOMAIN requests : refresh_create_token(c)
UsersMe == \E c \in DOMAIN requests, token \in Presented : Depends(c, "/users/me", 0, token)
\* with the users and the tokens changing, the table takes MaxAuthQuotes rows
PostQuoteImageAuth == PostWithin(MaxAuthQuotes)
GetQuoteAuth == GetWithin(MaxAuthQuotes)
ReadUsersMe == \E c \in DOMAIN requests : read_users_me(c)

NextAuth ==
    \/ CreateUser
    \/ UpdateUser
    \/ DeleteUser
    \/ list_users
    \/ console_exit
    \/ SetDisabled
    \/ Login
    \/ LoginAccessToken
    \/ LoginRefreshToken
    \/ Refresh
    \/ RefreshGetUser
    \/ RefreshCreateToken
    \/ UsersMe
    \/ CurrentUser
    \/ ReadUsersMe
    \/ PostQuoteImageAuth
    \/ Generate
    \/ Insert
    \/ Commit
    \/ Names
    \/ Update
    \/ SaveRaw
    \/ SaveOverlay
    \/ GetQuotes
    \/ ListQuotes
    \/ GetQuoteAuth
    \/ ReadQuote
    \/ Tick

SpecAuth == InitAuth /\ [][NextAuth]_vars

----------------------------------------------------------------------------
(* Properties *)

AfterFont == {"wrap", "measure", "plan", "composite", "encode", "done"}
AfterWrap == {"measure", "plan", "composite", "encode", "done"}
AfterMeasure == {"plan", "composite", "encode", "done"}
AfterDraw == {"composite", "encode", "done"}

\* measured size of a line with the font and drawing object of the call
LineWidth(line) == _text_size(draw, line, font)[1]
LineHeight(line) == _text_size(draw, line, font)[2]
Words(line) == SplitWs(line, <<>>)
Overlong(word) == LineWidth(word) > MaxTextWidth(width)

\* C1: a completed call returns an image of the input's width and height
\* in mode RGB (no alpha channel), on the native and on the upscale path.
C1_OutputSameSizeOpaque ==
    /\ pc = "done" => out # None
    /\ out # None => out = <<width, height, "RGB">>

C1_Witness ==
    /\ pc = "done"
    /\ upscale_layer # None
    /\ upscale_layer # <<width, height>>
    /\ width # height
    /\ text = <<>>

\* C2: every line of the drawn block has an effective height of at least
\* 14 px: its measured height on the native path, its measured height times
\* the upscale factor on the upscale path.
C2_EveryLineLegible ==
    pc \in AfterDraw =>
        \A i \in 1..Len(lines) :
            IF upscale_layer = None
            THEN line_heights[i] >= MIN_PX
            ELSE line_heights[i] * upscale_factor >= MIN_PX

\* C3: every wrapped line of two or more words measures at most
\* max_width_px; only single-word lines may exceed it.
C3_MultiWordLinesFit ==
    pc \in AfterWrap =>
        \A i \in 1..Len(lines) :
            Len(Words(lines[i])) >= 2 => LineWidth(lines[i]) <= MaxTextWidth(width)

C3_Witness ==
    /\ pc = "measure"
    /\ Len(lines) = 2
    /\ Len(Words(lines[1])) = 2
    /\ LineWidth(lines[1]) <= MaxTextWidth(width)
    /\ LineWidth(lines[1] \o <<" ">> \o lines[2]) > MaxTextWidth(width)

\* C4: the upscale path is taken exactly when the measured height of the
\* first line is below 14 px; otherwise the text is drawn on the full-size
\* layer and no upscaled buffer is created or pasted.
C4_UpscaleIffSampleBelowFloor ==
    /\ pc \in AfterDraw =>
          /\ (upscale_layer # None) <=> (LineHeight(lines[1]) < MIN_PX)
          /\ (paste # None) <=> (upscale_layer # None)
          /\ upscale_layer = None =>
                /\ upscale_factor = 1
                /\ rect[2] = y - PaddingY(font_size)
                /\ drawn[1][2] = y
    /\ upscale_layer # None => LineHeight(lines[1]) < MIN_PX

C4_Witness ==
    /\ pc = "done"
    /\ upscale_layer = None
    /\ sample_h = MIN_PX
    /\ Len(lines) = 2
    /\ line_heights[2] < MIN_PX

\* C5: with a scalable font loaded from the path list or the name list, at
\* a size of at least 18 px and with every non-empty line measuring at
\* least 14 px, the call takes the native path for every text.
C5_ScalableFontDrawsNative ==
    ( /\ pc \in AfterDraw
      /\ font.src \in {"path", "name"}
      /\ font.size >= MinFontSize
      /\ \A i \in 1..Len(lines) : lines[i] # <<>> => line_heights[i] >= MIN_PX )
    => upscale_layer = None

\* C6 as stated: for every text, joining the produced lines with single
\* spaces and wrapping again gives the same lines.
C6_RewrapIdempotent ==
    pc \in AfterWrap =>
        WrapAll(draw, Join(lines, <<" ">>), font, MaxTextWidth(width)) = lines

\* C6 amended: for every text without a paragraph break, joining the
\* produced lines with single spaces and wrapping again gives the same lines.
C6_RewrapIdempotentOneParagraph ==
    (pc \in AfterWrap /\ \A k \in 1..Len(text) : text[k] # "\n") =>
        WrapAll(draw, Join(lines, <<" ">>), font, MaxTextWidth(width)) = lines

C6_Witness ==
    /\ pc = "measure"
    /\ \A k \in 1..Len(text) : text[k] # "\n"
    /\ Len(lines) = 2
    /\ Len(Words(lines[1])) = 2
    /\ WrapAll(draw, Join(lines, <<" ">>), font, MaxTextWidth(width)) = lines

LoadablePaths == {i \in 1..NumPaths : font_files[i] = "ok"}

\* the font is the first candidate that loads, in the order paths, names,
\* default
FirstLoadableChosen ==
    /\ font.src = "path" <=> LoadablePaths # {}
    /\ font.src = "name" <=> (LoadablePaths = {} /\ font_names # {})
    /\ font.src = "default" <=> (LoadablePaths = {} /\ font_names = {})
    /\ font.src = "path" =>
          /\ font.idx \in LoadablePaths
          /\ \A j \in 1..(font.idx - 1) : j \notin LoadablePaths
    /\ font.src = "name" =>
          /\ font.idx \in font_names
          /\ \A j \in 1..(font.idx - 1) : j \notin font_names
    /\ font.src = "default" => font = LoadDefault(default_font)

\* C7: font resolution (lines 113-151), entered with the pixel size that
\* line 107 computed, yields a font and raises nothing: the candidates are
\* tried in the order paths, names, default; the first one that loads is
\* used, a name only if every path failed, the default only if every path
\* and every name failed; no failure of a candidate reaches the caller.
C7_FirstLoadableFontWins ==
    /\ pc = "wrap" =>
          /\ font # NoFont
          /\ font_size # -1 => FirstLoadableChosen
    /\ pc \in {"start", "font", "wrap"} => err = ""

C7_Witness ==
    /\ pc = "wrap"
    /\ font_size = 30
    /\ font.src = "name"
    /\ font.idx = 3
    /\ \E i \in 1..NumPaths : font_files[i] = "broken"
    /\ \E i \in 1..NumPaths : font_files[i] = "missing"
    /\ 5 \in font_names

\* C8: the font size the call works with is an integer of at least 18, for
\* every width and every scale, zero and negative scales included; a font
\* loaded from a candidate has that size.
C8_FontSizeAtLeastFloor ==
    /\ (pc \in AfterFont /\ text_scale.finite) =>
          /\ font_size \in Int
          /\ font_size >= MinFontSize
    /\ (rect # None \/ font.src \in {"path", "name"}) => font_size >= MinFontSize
    /\ font.src \in {"path", "name"} => font.size = font_size

C8_Witness ==
    /\ pc = "done"
    /\ text_scale = Scale(-30)
    /\ width = 1000
    /\ font_size = MinFontSize
    /\ font.src = "path"
    /\ font.size = MinFontSize
    /\ rect # None

\* the measuring helper returns for the font of the call
Measurable == ~TextSizeRaises(draw, font)

\* C9: for the empty text the wrapping step yields one empty line, the
\* block height used for positioning is the height of that line, and the
\* call completes without an error.
C9_EmptyTextOneLineBlock ==
    (image_ok /\ text = <<>> /\ text_scale.finite
        /\ (pc \in AfterFont \/ pc = "error") /\ Measurable) =>
        /\ pc # "error"
        /\ pc \in AfterWrap => lines = << <<>> >>
        /\ pc \in AfterDraw =>
              /\ total_text_height = LineHeight(lines[1])
              /\ y = (height - LineHeight(lines[1])) \div 2

\* the words of all lines, top to bottom
RECURSIVE WordsOf(_)
WordsOf(ls) == IF ls = <<>> THEN <<>> ELSE Words(Head(ls)) \o WordsOf(Tail(ls))

\* C10: a word wider than max_width_px is never split and never shares a
\* line with another word, wherever it stands, and wrapping raises nothing.
C10_OverlongWordAlone ==
    /\ pc \in AfterWrap =>
          /\ WordsOf(lines) = Words(text)
          /\ \A i \in 1..Len(lines) :
                (\E k \in 1..Len(Words(lines[i])) : Overlong(Words(lines[i])[k]))
                    => Len(Words(lines[i])) = 1
    /\ (Measurable /\ \E k \in 1..Len(Words(text)) : Overlong(Words(text)[k]))
          => pc # "error"

C10_Witness ==
    /\ pc = "measure"
    /\ Len(lines) = 3
    /\ Overlong(lines[2])
    /\ ~Overlong(lines[1])
    /\ ~Overlong(lines[3])
    /\ Len(SplitOn(text, "\n", <<>>)) = 1

\* the exceptions a render call can end in
RenderErrors == {"UnidentifiedImageError", "ValueError", "UnboundLocalError", "OSError"}

\* what a client of quote_image can tell failures apart by
Kind(outcome) == <<outcome.status, outcome.detail>>

\* C11: undecodable input bytes end the render call in an error without an
\* output image, and the caller sees that error as a kind no other failure
\* of the call has (an encode failure in particular), also as the outcome of
\* the quote_image handler.
C11_DecodeErrorDistinctKind ==
    /\ (~image_ok /\ pc # "start") =>
          /\ pc = "error"
          /\ err = "UnidentifiedImageError"
          /\ out = None
    /\ (image_ok /\ pc = "error") => err # "UnidentifiedImageError"
    /\ (~image_ok /\ handler # NoOutcome) =>
          \A e \in RenderErrors \ {"UnidentifiedImageError"} :
              Kind(handler) # Kind(OverlayFailure(e))

\* C12 as stated: on the upscale path the factor is the least integer f
\* with f * h >= 14 (the ceiling of 14 / h) for the sampled height h, and it
\* is at least 1; a sampled height of 9 gives 2.
C12_FactorIsCeilOfRatio ==
    upscale_layer # None =>
        /\ sample_h >= 0 /\ sample_h < MIN_PX
        /\ upscale_factor >= 1
        /\ upscale_factor * sample_h >= MIN_PX
        /\ (upscale_factor - 1) * sample_h < MIN_PX
        /\ sample_h = 9 => upscale_factor = 2

\* C12: on the upscale path the factor is the ceiling of 14 / max(1, h) for
\* the sampled height h: the ceiling of 14 / h for 1 <= h < 14 (2 for
\* h = 9), and 14 for h = 0; it is at least 1.
C12_FactorIsCeilOfClampedRatio ==
    upscale_layer # None =>
        /\ sample_h >= 0 /\ sample_h < MIN_PX
        /\ upscale_factor >= 1
        /\ upscale_factor * Max(1, sample_h) >= MIN_PX
        /\ (upscale_factor - 1) * Max(1, sample_h) < MIN_PX
        /\ sample_h = 9 => upscale_factor = 2
        /\ sample_h = 0 => upscale_factor = MIN_PX

C12_Witness ==
    /\ pc = "done"
    /\ upscale_layer # None
    /\ sample_h = 9
    /\ upscale_factor = 2
    /\ upscale_layer = <<2 * width, 2 * text_block_height>>

\* block height before upscaling: the line heights and the gaps between lines
NativeHeight == Sum(line_heights) + (Len(lines) - 1) * LineGap

\* C13 as stated: the font size is max(18, floor(W * s)) and the line width
\* limit is floor(0.82 * W); W = 1000 and s = 0.03 give 30 and 820.
C13_SizeAndLimitAreFloors ==
    (pc \in AfterWrap /\ text_scale.finite) =>
        /\ font_size = Max(18, (width * text_scale.num) \div text_scale.den)
        /\ max_text_width = (82 * width) \div 100
        /\ (width = 1000 /\ text_scale = Scale(30)) =>
              (font_size = 30 /\ max_text_width = 820)

\* C13: the font size is max(18, int(W * s)) and the line width limit is
\* int(W * 0.82), each product rounded to the nearest double before int()
\* drops its fraction.  Against the numbers as written the value is the
\* floor or one less (122, not 123, for W = 150 and 0.82, as limit and as
\* font size); against the real product of W and the double s >= 0 it is
\* the floor or one more (50 for W = 150 and s = 1/3, whose real product
\* has the floor 49; likewise 19 and 18 for W = 57).  W = 1000 and s = 0.03
\* give 30 and 820.
C13_SizeFloorLimitDoubleProduct ==
    (pc \in AfterWrap /\ text_scale.finite) =>
        /\ font_size \in {Max(18, (width * text_scale.num) \div text_scale.den - 1),
                          Max(18, (width * text_scale.num) \div text_scale.den)}
        /\ text_scale.num > 0 =>
              font_size \in
                 {Max(18, FloorOfExactProduct(width, text_scale.num, text_scale.den)),
                  Max(18, FloorOfExactProduct(width, text_scale.num, text_scale.den) + 1)}
        /\ text_scale.num <= 0 => font_size = 18
        /\ (width = 150 /\ text_scale = Scale(820)) => font_size = 122
        /\ (width = 150 /\ text_scale = Ratio(1, 3)) =>
              (font_size = 50 /\ FloorOfExactProduct(150, 1, 3) = 49)
        /\ IntOfDoubleProduct(57, 1, 3) = 19
        /\ FloorOfExactProduct(57, 1, 3) = 18
        /\ max_text_width \in {(82 * width) \div 100 - 1, (82 * width) \div 100}
        /\ max_text_width \in {FloorOfExactProduct(width, 82, 100),
                               FloorOfExactProduct(width, 82, 100) + 1}
        /\ width = 150 => max_text_width = 122
        /\ (width = 1000 /\ text_scale = Scale(30)) =>
              (font_size = 30 /\ max_text_width = 820)

\* the double product rounds below 123 for the limit and for the font size
C13_Witness ==
    /\ pc = "done"
    /\ width = 150
    /\ text_scale = Scale(820)
    /\ font_size = 122
    /\ max_text_width = 122
    /\ font.size = 122

\* C14 as stated: on the upscale path the temporary buffer is as wide as the
\* base image and as high as the block's native height plus a margin of 20%
\* of the font size.
C14_BufferMarginFifthOfFontSize ==
    upscale_layer # None =>
        /\ upscale_layer[1] = width * upscale_factor
        /\ text_block_height = NativeHeight + (2 * font_size) \div 10

\* C14: on the upscale path the temporary buffer is as wide as the base
\* image and as high as the block's native height (line heights plus 8 px
\* between lines) plus a margin of 120% of the font size.
C14_BufferMarginOfFontSizeAndFifth ==
    upscale_layer # None =>
        /\ upscale_layer[1] = width * upscale_factor
        /\ upscale_layer[2] = text_block_height * upscale_factor
        /\ text_block_height = NativeHeight + (12 * font_size) \div 10

C14_Witness ==
    /\ pc = "composite"
    /\ upscale_layer # None
    /\ font.kind = "bitmap"
    /\ Len(lines) = 2
    /\ font_size = 30
    /\ text_block_height = 11 + 11 + 8 + 36

\* C15 as stated: on the upscale path the block height used for centring is
\* the block's native height times the upscale factor (twice the native
\* height for a sampled height of 9), and the block top is at
\* floor((H - that height) / 2).
C15_CentredHeightIsNativeTimesFactor ==
    (pc \in AfterDraw /\ upscale_layer # None) =>
        /\ total_text_height = NativeHeight * upscale_factor
        /\ sample_h = 9 => total_text_height = NativeHeight * 2
        /\ 2 * y <= height - total_text_height
        /\ height - total_text_height < 2 * y + 2
        /\ paste[2] = y

\* C15: on the upscale path the block height used for centring is the height
\* of the upscaled buffer: the block's native height plus the margin of 120%
\* of the font size, times the upscale factor (times 2 for a sampled height
\* of 9); the block top is at floor((H - that height) / 2).
C15_CentredHeightIsBufferTimesFactor ==
    (pc \in AfterDraw /\ upscale_layer # None) =>
        /\ total_text_height = (NativeHeight + (12 * font_size) \div 10) * upscale_factor
        /\ total_text_height = upscale_layer[2]
        /\ sample_h = 9 =>
              total_text_height = (NativeHeight + (12 * font_size) \div 10) * 2
        /\ 2 * y <= height - total_text_height
        /\ height - total_text_height < 2 * y + 2
        /\ paste[2] = y

C15_Witness ==
    /\ pc = "encode"
    /\ upscale_layer # None
    /\ sample_h = 9
    /\ upscale_factor = 2
    /\ total_text_height = 2 * (9 + 21)
    /\ y = (height - 60) \div 2
    /\ y < 0

\* lines 211-243: the backdrop as it lies on the text layer: the rectangle
\* itself on the native path; on the upscale path the pixels of the rectangle
\* that the block holds (columns up to width - 1, rows up to
\* text_block_height - 1), scaled by the factor, moved by the paste position
\* and clipped by the layer
BackdropOnLayer ==
    IF upscale_layer = None
    THEN rect
    ELSE <<Max(0, paste[1] + upscale_factor * rect[1]),
           Max(0, paste[2] + upscale_factor * rect[2]),
           Min(width - 1, paste[1] + upscale_factor * Min(rect[3], width - 1)
                            + upscale_factor - 1),
           Min(height - 1, paste[2] + upscale_factor * Min(rect[4], text_block_height - 1)
                             + upscale_factor - 1)>>

\* C16: on the composited text layer the backdrop is one rectangle from
\* floor(0.06 * W) to W - floor(0.06 * W) horizontally, on the native and on
\* the upscale path; on the native path it spans from
\* block_top - floor(0.6 * font_size) to
\* block_top + block_height + floor(0.6 * font_size) vertically.
C16_BackdropMargins ==
    pc \in AfterDraw =>
        /\ BackdropOnLayer[1] = (6 * width) \div 100
        /\ BackdropOnLayer[3] = width - (6 * width) \div 100
        /\ upscale_layer = None =>
              /\ rect[2] = y - (6 * font_size) \div 10
              /\ rect[4] = y + total_text_height + (6 * font_size) \div 10

\* text.split("\n")
Paragraphs == SplitOn(text, "\n", <<>>)

\* the lines of one paragraph wrapped on its own
WrappedAlone(p) == wrap_text_by_pixel(draw, p, font, max_text_width)

\* ls can be cut into one run of lines per paragraph of ps, in order: a
\* paragraph with words gets lines that hold exactly its words, a paragraph
\* without words gets one empty line
RECURSIVE ParagraphsKept(_, _)
ParagraphsKept(ls, ps) ==
    IF ps = <<>> THEN ls = <<>>
    ELSE \E n \in 1..Len(ls) :
            /\ WordsOf(SubSeq(ls, 1, n)) = Words(Head(ps))
            /\ Words(Head(ps)) = <<>> => (n = 1 /\ ls[1] = <<>>)
            /\ Words(Head(ps)) # <<>> => \A i \in 1..n : Words(ls[i]) # <<>>
            /\ ParagraphsKept(SubSeq(ls, n + 1, Len(ls)), Tail(ps))

\* C17: paragraph breaks are hard boundaries: the lines are the wrapped lines
\* of each paragraph in order, no line holds words of two paragraphs, a
\* paragraph without words gives exactly one empty line, and k paragraphs
\* give at least k lines.
C17_ParagraphsAreBoundaries ==
    pc \in AfterWrap =>
        /\ Len(lines) >= Len(Paragraphs)
        /\ ParagraphsKept(lines, Paragraphs)
        /\ \A k \in 1..Len(Paragraphs) :
              Words(Paragraphs[k]) = <<>> => WrappedAlone(Paragraphs[k]) = << <<>> >>

C17_Witness ==
    /\ pc = "measure"
    /\ Len(Paragraphs) = 2
    /\ Len(lines) = 3
    /\ Len(Words(Paragraphs[1])) = 2
    /\ lines[3] = <<>>

\* every line but the last could not take the first word of the next line
GreedyMaximal(ls) ==
    \A i \in 1..(Len(ls) - 1) :
        LineWidth(ls[i] \o <<" ">> \o Words(ls[i + 1])[1]) > max_text_width

\* C18: wrapping is greedy-maximal: for consecutive lines of one paragraph,
\* the earlier line followed by one space and the first word of the later
\* line measures more than max_width_px.
C18_GreedyMaximal ==
    pc \in AfterWrap =>
        /\ \A k \in 1..Len(Paragraphs) : GreedyMaximal(WrappedAlone(Paragraphs[k]))
        /\ Len(Paragraphs) = 1 => GreedyMaximal(lines)

C18_Witness ==
    /\ pc = "measure"
    /\ Len(Paragraphs) = 1
    /\ Len(lines) = 2
    /\ Len(Words(lines[1])) = 2
    /\ LineWidth(lines[1]) = max_text_width
    /\ LineWidth(lines[1] \o <<" ">> \o Words(lines[2])[1]) > max_text_width

\* C19: wrapping neither loses, duplicates nor reorders words: the words of
\* a paragraph's lines, in order, are the paragraph's words, and the words
\* of a line are separated by exactly one space.
C19_WordsKeptSingleSpaced ==
    pc \in AfterWrap =>
        /\ \A k \in 1..Len(Paragraphs) :
              LET ls == WrappedAlone(Paragraphs[k])
              IN  /\ WordsOf(ls) = Words(Paragraphs[k])
                  /\ \A i \in 1..Len(ls) : ls[i] = Join(Words(ls[i]), <<" ">>)
        /\ \A i \in 1..Len(lines) : lines[i] = Join(Words(lines[i]), <<" ">>)
        /\ WordsOf(lines) = Words(text)

C19_Witness ==
    /\ pc = "measure"
    /\ Len(Paragraphs) = 1
    /\ Len(lines) = 2
    /\ Len(Words(text)) = 2
    /\ Len(text) > Len(lines[1]) + 1 + Len(lines[2])

\* C20: measuring never aborts the render call: with every drawing object
\* and every resolved font, the bitmap default included, the helper returns
\* a (width, height) pair, the estimate of 8 px per character and 12 px
\* height when neither the drawing object nor the font can measure.
C20_MeasuringNeverAborts ==
    /\ ~(pc = "error" /\ err = "ValueError" /\ TextSizeRaises(draw, font))
    /\ (pc \in AfterMeasure /\ draw = "none") =>
          \A i \in 1..Len(lines) :
              /\ line_heights[i] = 12
              /\ LineWidth(lines[i]) = 8 * Len(lines[i])

\* position of a stage in the order of the code
Stage(p) ==
    CASE p = "start" -> 0
      [] p = "font" -> 1
      [] p = "wrap" -> 2
      [] p = "measure" -> 3
      [] p = "plan" -> 4
      [] p = "composite" -> 5
      [] p = "encode" -> 6
      [] p = "done" -> 7
      [] OTHER -> 8

\* C21: within one call the stages run once each in the order resolve font,
\* wrap, measure, choose the path, draw, composite, encode: every step goes
\* to the next stage or ends the call in an error, exactly one draw path
\* runs, and a later call starts with nothing an earlier call wrote.
C21_StagesOnceInOrder ==
    [][ /\ (pc' # pc /\ pc' # "start") =>
              /\ pc \notin {"done", "error"}
              /\ pc' = "error" \/ Stage(pc') = Stage(pc) + 1
        /\ pc' = "start" =>
              /\ pc \in {"done", "error"}
              /\ <<txt', font_size', font', lines', line_heights', sample_h'>>
                     = <<None, -1, NoFont, <<>>, <<>>, 0>>
              /\ <<upscale_factor', upscale_layer', rect', drawn', paste', out'>>
                     = <<1, None, None, <<>>, None, None>>
              /\ <<total_text_height', text_block_height', y', max_text_width'>>
                     = <<0, 0, 0, 0>>
        /\ (pc = "plan" /\ pc' = "composite") =>
              /\ Len(drawn') = Len(lines)
              /\ \/ upscale_layer' # None /\ paste' # None /\ rect'[2] = 0
                 \/ upscale_layer' = None /\ paste' = None /\ rect'[2] = y' - PaddingY(font_size)
        /\ pc' = "done" =>
              /\ font' # NoFont /\ lines' # <<>> /\ Len(line_heights') = Len(lines')
              /\ rect' # None /\ out' # None
      ]_vars

\* a second call has finished after a first call that took the other path
C21_Witness ==
    /\ pc = "done"
    /\ upscale_layer = None
    /\ font.kind = "truetype"
    /\ text = <<"T">>
    /\ width = 1000

\* C22: on the native path every drawn line that holds text lies vertically
\* inside the backdrop rectangle, for every number of lines and every font
\* size: it does not start above the rectangle's top edge and does not end
\* below its bottom edge.
C22_NativeLinesInsideBackdrop ==
    (pc \in AfterDraw /\ upscale_layer = None) =>
        \A i \in 1..Len(drawn) :
            lines[i] # <<>> =>
                /\ drawn[i][2] >= rect[2]
                /\ drawn[i][2] + drawn[i][4] <= rect[4]

\* C23: on the upscale path no wrapped line of two or more words that fits
\* max_text_width is cropped: enlarged by the factor and pasted, it lies
\* between 0 and W horizontally.
C23_UpscaledLinesInsideImage ==
    (pc \in AfterDraw /\ upscale_layer # None) =>
        \A i \in 1..Len(drawn) :
            (Len(Words(lines[i])) >= 2 /\ drawn[i][3] <= max_text_width) =>
                /\ paste[1] + upscale_factor * drawn[i][1] >= 0
                /\ paste[1] + upscale_factor * (drawn[i][1] + drawn[i][3]) <= width

\* C24: when the font-selection block ends by swallowing an exception and
\* substituting the default font, every value the drawing steps read is
\* defined, font_size in particular, and the call does not end in the error
\* of reading an unbound local.
C24_SwallowedFontErrorStillDraws ==
    (font # NoFont /\ ~text_scale.finite) =>
        ~(pc = "error" /\ err = "UnboundLocalError" /\ font_size = -1)

\* the files on disk that carry the id of a request
FilesOf(id, disk) == {f \in disk : f.id = id}

\* C25: a POST /quote-image that ends with an error response leaves the
\* persistent state as it was before the request: whichever step fails, no
\* row added by the request remains in the quotes table and no file written
\* by it remains on disk.
C25_FailedPostLeavesNothing ==
    [][ \A c \in DOMAIN requests :
          (/\ requests[c].endpoint = "/quote-image"
           /\ requests'[c].pc = "idle"
           /\ response'.status = 500) =>
              /\ requests[c].quote_id # 0 =>
                    /\ requests[c].quote_id \notin 1..Len(rows')
                    /\ FilesOf(requests[c].quote_id, image_files') = {}
              /\ requests[c].quote_id = 0 => (rows' = rows /\ image_files' = image_files)
      ]_vars

\* C26: a reader running while POST /quote-image is in progress never gets a
\* row whose raw or overlay filename is the placeholder "temp", and never a
\* row whose named files are not on disk.
C26_ReaderSeesCompleteRows ==
    (response.endpoint \in {"/quotes", "/quotes/{quote_id}"} /\ response.status = 200) =>
        \A i \in 1..Len(response.body) :
            /\ response.body[i].raw # TempName
            /\ response.body[i].overlay # TempName
            /\ response.body[i].raw \in image_files
            /\ response.body[i].overlay \in image_files

\* C27: GET /quotes/{quote_id} with a valid token answers 404 "Quote not
\* found" exactly when no row has that id, answers with the row when it
\* exists, and answers 500 only when the lookup itself failed.
C27_NotFoundIs404 ==
    [][ (response' # response /\ response'.endpoint = "/quotes/{quote_id}"
         /\ response'.status \notin {400, 401}) =>
            /\ response'.status \in {200, 404, 500}
            /\ response'.status = 404 =>
                  (response'.id \notin 1..Len(rows) /\ response'.detail = "Quote not found")
            /\ (response'.id \notin 1..Len(rows) /\ response'.cause # "get_quote_by_id")
                  => response'.status = 404
            /\ response'.status = 200 =>
                  (response'.id \in 1..Len(rows) /\ response'.body = <<rows[response'.id]>>)
            /\ response'.status = 500 => response'.cause = "get_quote_by_id"
      ]_vars

\* C28: the two tokens are not interchangeable: no protected endpoint
\* answers 200 to a request whose bearer token was issued as the
\* refresh_token of /token, and /refresh does not answer 200 to a token
\* that was issued as an access_token.
C28_TokensNotInterchangeable ==
    /\ (response.endpoint \in ProtectedEndpoints /\ response.status = 200)
         => response.token.issued_as # "refresh_token"
    /\ (response.endpoint = "/refresh" /\ response.status = 200)
         => response.token.issued_as # "access_token"

\* the row of the users table is there and not disabled
ActiveNow(username) ==
    /\ username \in Usernames
    /\ users[username].exists
    /\ ~users[username].disabled

\* the request is past its dependency: the endpoint function runs
Served(request) ==
    /\ request.endpoint \in ProtectedEndpoints
    /\ request.pc \notin {"idle", "get_user"}

\* C29: whatever logins, refreshes, updates and deletions of users came
\* before, and whenever its token was issued, a request to /quote-image,
\* /quotes, /quotes/{quote_id} or /users/me gets a success response only
\* if its subject is, at the time of the request, an existing user that is
\* not disabled.  The time of the request is the moment its dependency
\* looks the subject up in the users table: a request reaches the endpoint
\* function only from that look-up and only when the look-up finds a row
\* that is not disabled, it keeps its token from then on, and only a
\* request that reached the endpoint function is answered with 200.
C29_OnlyActiveUsersServed ==
    [][/\ \A c \in DOMAIN requests :
             /\ (~Served(requests[c]) /\ Served(requests'[c])) =>
                   /\ requests[c].pc = "get_user"
                   /\ requests'[c].endpoint = requests[c].endpoint
                   /\ requests'[c].token = requests[c].token
                   /\ ActiveNow(requests[c].token.sub)
             /\ (Served(requests[c]) /\ requests'[c].pc # "idle") =>
                   /\ Served(requests'[c])
                   /\ requests'[c].endpoint = requests[c].endpoint
                   /\ requests'[c].token = requests[c].token
       /\ (response'.endpoint \in ProtectedEndpoints /\ response'.status = 200) =>
             \E c \in DOMAIN requests :
                /\ Served(requests[c])
                /\ requests'[c].pc = "idle"
                /\ requests[c].endpoint = response'.endpoint
                /\ requests[c].token = response'.token]_vars

\* a request whose token, issued at the start, was decoded before it
\* expired; the clock moved on and the user was disabled before get_user
\* looked the subject up: the answer is 400
C29_Witness ==
    /\ response.endpoint \in ProtectedEndpoints
    /\ response.status = 400
    /\ response.token # NoToken
    /\ now > 0
    /\ response.token.exp = AccessLife
    /\ users[response.token.sub].disabled

=============================================================================
